---------------------------- MODULE Spec2Model ----------------------------
(***************************************************************************)
(* A model of the AI-librarian ACP example: the catalog/discovery service  *)
(* (mcpserver.py), the literary-critic router and its tools                *)
(* (smolagents_server.py), the archivist specialist (crew_agent_server.py) *)
(* and the interactive client (main.py).                                   *)
(*                                                                         *)
(* Text is a sequence of tokens.  A token is a record [s, k]: a literal    *)
(* piece of text s, or (s = "key") the book key number k.  Book keys are   *)
(* numbered in their lexicographic order, so sorted() is ascending k.      *)
(***************************************************************************)
EXTENDS Integers, Sequences, FiniteSets, TLC

\* ------------------------------------------------------------------ bounds
MaxKeys == 2

MaxKeyLen == 5

Keys == 1..MaxKeys

\* ------------------------------------------------------------------- text
Lit(s) == [s |-> s, k |-> 0]

KeyTok(k) == [s |-> "key", k |-> k]

KeyText(k) == <<KeyTok(k)>>

Range(f) == {f[i] : i \in DOMAIN f}

Perms(S) == {f \in [1..Cardinality(S) -> S] : \A i, j \in 1..Cardinality(S) : f[i] = f[j] => i = j}

StartsWith(t, p) == Len(t) >= Len(p) /\ SubSeq(t, 1, Len(p)) = p

\* str.split(sep, 1)[1]: the text after the first occurrence of token sep
\* (used only where the code has checked that sep occurs).
AfterFirst(t, sep) ==
    LET i == CHOOSE j \in 1..Len(t) : t[j] = sep /\ \A h \in 1..(j - 1) : t[h] # sep
    IN  SubSeq(t, i + 1, Len(t))

\* sorted(list) for a list of book keys: insertion sort on the key order.
RECURSIVE InsertSorted(_, _)
InsertSorted(x, s) ==
    IF s = <<>> THEN <<x>>
    ELSE IF x <= Head(s) THEN <<x>> \o s
    ELSE <<Head(s)>> \o InsertSorted(x, Tail(s))

RECURSIVE sorted(_)
sorted(s) == IF s = <<>> THEN <<>> ELSE InsertSorted(Head(s), sorted(Tail(s)))

IsSorted(s) == \A i, j \in 1..Len(s) : i < j => s[i] <= s[j]

\* ------------------------------------------------------------ environment
VARIABLES
    remoteSrc,   \* BOOK_METADATA_URL and what a GET of it yields
    localDoc,    \* book_metadata.json beside the servers
    dataDir,     \* the data/ directory beside the servers
    useMcp,      \* USE_MCP_DISCOVERY of the router process
    svcState,    \* per ACP endpoint: "up", or how a connection to it fails
    outside,     \* the keys k with a file <k>.txt beside data/, not in it
    catLast,     \* the last catalog/router query and its outcome
    router,      \* the critic's request in progress
    archLast,    \* the last call to the archivist and its outcome
    cli,         \* the interactive client: where its loop is, the active agent
    cliLast,     \* the client's latest input line and what came of it
    norm,        \* a key being normalized: the input and the results
    wait         \* per call site: a request awaiting its peer's answer

envVars == <<remoteSrc, localDoc, dataDir, useMcp, svcState, outside>>

catVars == <<catLast, router>>

archVars == <<archLast>>

cliVars == <<cli, cliLast>>

normVars == <<norm>>

waitVars == <<wait>>

Services == {"critic", "archivist", "catalog"}

TransportFailures == {"refused", "timeout", "protocol"}

\* The agent name each server registers (the name= of its @server.agent).
Registered(svc) ==
    CASE svc = "critic" -> "literary_critic_agent"
      [] svc = "archivist" -> "archivist_agent"
      [] svc = "catalog" -> "book_catalog_agent"

\* "unreachable": requests.get raises (refused, timed out); "http_error":
\* raise_for_status raises; "not_json": resp.json raises; "non_mapping": the
\* body is JSON but no object; "mapping": the body is a key -> metadata object.
RemoteFailures == {"unreachable", "http_error", "not_json"}

RemoteStates == {"unset", "non_mapping", "mapping"} \cup RemoteFailures

LocalStates == {"missing", "not_json", "non_mapping", "mapping"}

\* A metadata object of the document: which source it came from and for
\* which key; EmptyMeta is the JSON object {}.
Meta(src, k) == [src |-> src, key |-> k]

EmptyMeta == Meta("none", 0)

\* A directory entry <base>.<ext>; base 0 is a file that is no book (README).
Entry(b, e, f) == [base |-> b, ext |-> e, isfile |-> f]

EntryUniverse ==
    {Entry(k, "txt", f) : k \in Keys, f \in BOOLEAN} \cup {Entry(0, "md", TRUE)}

SameName(a, b) == a.base = b.base /\ a.ext = b.ext


\* An enumeration order of the key names: the order in which os.listdir and
\* a JSON document's keys come, which the code does not fix.  (The README,
\* name 0, comes first; it is no book whatever its place.)
Orders == {<<0>> \o p : p \in Perms(Keys)}

Enumerate(S, ord) == SelectSeq(ord, LAMBDA b : b \in S)

\* os.listdir(DATA_DIR): the entries, in the enumeration order.
listdir(ord) ==
    LET bases == {e.base : e \in dataDir.entries}
        names == Enumerate(bases, ord)
    IN  [i \in DOMAIN names |-> CHOOSE e \in dataDir.entries : e.base = names[i]]

\* --------------------------------------------------------------- contents
\* The content of a message part.  enc says how the text reads: "json" is a
\* text json.dumps produced (json.loads gives the value back), "plain" is a
\* sentence, which json.loads rejects.  tag names a fixed sentence.
Content(enc, ty, items, obj, tag) ==
    [enc |-> enc, ty |-> ty, items |-> items, obj |-> obj, tag |-> tag]

JsonArray(items) == Content("json", "list", items, EmptyMeta, "")

JsonObject(m) == Content("json", "dict", <<>>, m, "")

PlainText(tag, items) == Content("plain", "text", items, EmptyMeta, tag)

NoContent == PlainText("", <<>>)

\* A Python value held by the router: a list of keys or a metadata dict.
PyList(items) == [ty |-> "list", items |-> items, obj |-> EmptyMeta]

PyDict(m) == [ty |-> "dict", items |-> <<>>, obj |-> m]

\* json.loads(text): the value, or a JSONDecodeError (ok = FALSE).
json_loads(c) ==
    IF c.enc = "json"
    THEN [ok |-> TRUE, val |-> [ty |-> c.ty, items |-> c.items, obj |-> c.obj]]
    ELSE [ok |-> FALSE, val |-> PyList(<<>>)]

\* A handler's outcome: it faulted (an exception left it) or it yielded msgs.
Fault == [fault |-> TRUE, msgs |-> <<>>]

Yield(msgs) == [fault |-> FALSE, msgs |-> msgs]

\* ------------------------------------------------- catalog store (mcpserver)
\* What load_metadata returns: a mapping with its keys, or (mapping = FALSE)
\* a JSON value that is no mapping (an array, a string, a number, null).
Loaded(m, src, keys) == [mapping |-> m, src |-> src, keys |-> keys]

\* The metadata as it was when the service started, kept for later requests.
load_metadata_at_start == Loaded(TRUE, "none", {})

load_metadata ==
    IF remoteSrc.st = "mapping" THEN Loaded(TRUE, "remote", remoteSrc.keys)
    ELSE IF remoteSrc.st = "non_mapping" THEN Loaded(FALSE, "remote", {})
    ELSE IF localDoc.st = "mapping" THEN Loaded(TRUE, "local", localDoc.keys)
    ELSE IF localDoc.st = "non_mapping" THEN Loaded(FALSE, "local", {})
    ELSE Loaded(TRUE, "none", {})

\* The keys of the entries that pass both tests of the comprehension.
TxtFiles(ls) == SelectSeq(ls, LAMBDA e : e.ext = "txt" /\ e.isfile)

\* scan_books without its os.path.isfile test.
scan_books_any_entry(ord) ==
    IF ~dataDir.exists THEN <<>>
    ELSE LET fs == SelectSeq(listdir(ord), LAMBDA e : e.ext = "txt")
         IN  [i \in DOMAIN fs |-> fs[i].base]

scan_books(ord) ==
    IF ~dataDir.exists THEN <<>>
    ELSE LET fs == TxtFiles(listdir(ord)) IN [i \in DOMAIN fs |-> fs[i].base]

\* metadata.get(key, {}) on a loaded mapping, key a text.
MetaGet(md, key) ==
    IF \E k \in md.keys : key = KeyText(k)
    THEN Meta(md.src, (CHOOSE k \in md.keys : key = KeyText(k)))
    ELSE EmptyMeta

ListPrompt == <<Lit("__LIST__")>>

MetaPrefix == <<Lit("__META__"), Lit(":")>>

MetaPrompt(key) == MetaPrefix \o key

book_catalog_agent(prompt, ord) ==
    LET metadata == load_metadata IN
    IF prompt = ListPrompt
    THEN IF ~metadata.mapping THEN Fault   \* metadata.keys(): AttributeError
         ELSE LET mk == Enumerate(metadata.keys, ord)
                  keys == IF mk # <<>> THEN mk ELSE scan_books(ord)
              IN  Yield(<<JsonArray(sorted(keys))>>)
    ELSE IF StartsWith(prompt, MetaPrefix)
    THEN IF ~metadata.mapping THEN Fault   \* metadata.get: AttributeError
         ELSE Yield(<<JsonObject(MetaGet(metadata, AfterFirst(prompt, Lit(":"))))>>)
    ELSE Yield(<<JsonObject(EmptyMeta)>>)

\* ------------------------------------------------------------ ACP run_sync
\* Client.run_sync against endpoint svc naming agent, where outcome is what
\* the addressed handler does with the request.  A connection failure and an
\* unknown agent name (HTTP 404) raise in the caller; a handler fault comes
\* back as a Run with an error and no output.  Every message of this system
\* has exactly one part, so output[0].parts is never empty.
RunRaised == [raised |-> TRUE, output |-> <<>>, error |-> FALSE]

run_sync(svc, agent, outcome) ==
    IF svcState[svc] # "up" THEN RunRaised
    ELSE IF agent # Registered(svc) THEN RunRaised
    ELSE IF outcome.fault THEN [raised |-> FALSE, output |-> <<>>, error |-> TRUE]
    ELSE [raised |-> FALSE, output |-> outcome.msgs, error |-> FALSE]

\* ------------------------------------------- router tools (smolagents_server)
\* A tool's outcome: it raised, or it returned val.
ToolFault == [fault |-> TRUE, val |-> PyList(<<>>)]

ToolReturn(v) == [fault |-> FALSE, val |-> v]

_scan_books(ord) ==
    IF ~dataDir.exists THEN <<>>
    ELSE LET fs == TxtFiles(listdir(ord)) IN [i \in DOMAIN fs |-> fs[i].base]

_load_metadata ==
    IF localDoc.st = "mapping" THEN Loaded(TRUE, "local", localDoc.keys)
    ELSE IF localDoc.st = "non_mapping" THEN Loaded(FALSE, "local", {})
    ELSE Loaded(TRUE, "none", {})

\* The reply of the catalog service as the two MCP tools read it: the parsed
\* first part, when the call returned an output that parses.
CatalogAnswer(prompt, ord) ==
    LET run == run_sync("catalog", "book_catalog_agent", book_catalog_agent(prompt, ord))
        parsed == IF run.output # <<>> THEN json_loads(run.output[1])
                  ELSE [ok |-> FALSE, val |-> PyList(<<>>)]
    IN  [answered |-> ~run.raised /\ run.output # <<>> /\ parsed.ok, val |-> parsed.val]

list_available_books(ord) ==
    IF useMcp /\ CatalogAnswer(ListPrompt, ord).answered
    THEN ToolReturn(CatalogAnswer(ListPrompt, ord).val)
    ELSE ToolReturn(PyList(_scan_books(ord)))

get_book_metadata(book_key, ord) ==
    IF useMcp /\ CatalogAnswer(MetaPrompt(book_key), ord).answered
    THEN ToolReturn(CatalogAnswer(MetaPrompt(book_key), ord).val)
    ELSE LET meta == _load_metadata IN
         IF ~meta.mapping THEN ToolFault   \* meta.get: AttributeError
         ELSE ToolReturn(PyDict(MetaGet(meta, book_key)))

\* ------------------------------------------------ the critic's fast path
\* str.lower() on the literals the prompts and lines use.
LowerS(s) ==
    CASE s = "What" -> "what"
      [] s = "Books" -> "books"
      [] s = "LIST" -> "list"
      [] s = "List" -> "list"
      [] s = "Library" -> "library"
      [] s = "Pride" -> "pride"
      [] s = "/USE" -> "/use"
      [] s = "Archivist" -> "archivist"
      [] s = "/List" -> "/list"
      [] OTHER -> s

lower(t) == [i \in DOMAIN t |-> [s |-> LowerS(t[i].s), k |-> t[i].k]]

\* needle in word: needle occurs inside the (lower-case) literal word.
Occurs(needle, word) ==
    CASE needle = "book" -> word \in {"book", "books", "books.", "bookshelf"}
      [] needle = "library" -> word \in {"library", "library?"}
      [] needle = "list" -> word \in {"list", "playlist"}
      [] needle = "available" -> word \in {"available"}
      [] needle = "have" -> word \in {"have", "behave"}
      [] OTHER -> FALSE

\* needle in text.  The words of a text are separated by blanks and no
\* needle holds a blank, so an occurrence lies inside one token.
In(needle, t) == \E i \in DOMAIN t : Occurs(needle, t[i].s)

\* The words ws as one text, a blank between neighbours.
Words(ws) ==
    [i \in 1..(2 * Len(ws) - 1) |-> IF i % 2 = 1 THEN Lit(ws[(i + 1) \div 2]) ELSE Lit(" ")]

\* not books, for the value a tool returned.
Falsy(v) == IF v.ty = "list" THEN v.items = <<>> ELSE v.obj = EmptyMeta

\* literary_critic_agent joining the books in the order the tool gave them.
literary_critic_agent_unsorted(prompt, ord) ==
    LET lc == lower(prompt) IN
    IF (In("book", lc) \/ In("library", lc))
       /\ (In("list", lc) \/ In("available", lc) \/ In("have", lc))
    THEN LET books == list_available_books(ord).val
             content == IF Falsy(books) THEN PlainText("no_books_found", <<>>)
                        ELSE PlainText("available_books", books.items)
         IN  [fast |-> TRUE, msgs |-> <<content>>]
    ELSE [fast |-> FALSE, msgs |-> <<>>]

\* literary_critic_agent up to agent.run: on the fast path the one message it
\* yields; otherwise (fast = FALSE) the decision function takes over.
literary_critic_agent(prompt, ord) ==
    LET lc == lower(prompt) IN
    IF (In("book", lc) \/ In("library", lc))
       /\ (In("list", lc) \/ In("available", lc) \/ In("have", lc))
    THEN LET books == list_available_books(ord).val
             content == IF Falsy(books) THEN PlainText("no_books_found", <<>>)
                        ELSE PlainText("available_books", sorted(books.items))
         IN  [fast |-> TRUE, msgs |-> <<content>>]
    ELSE [fast |-> FALSE, msgs |-> <<>>]

\* ---------------------------------------------------------------- inputs
CatalogPrompts ==
    {ListPrompt, <<>>, <<Lit("list_available_books")>>, <<Lit("__LIST__"), Lit(" ")>>,
     MetaPrefix, <<Lit("__META__")>>}
    \cup {MetaPrompt(KeyText(k)) : k \in Keys}
    \cup {MetaPrompt(KeyText(k) \o <<Lit(":")>> \o KeyText(k)) : k \in Keys}

BookKeys == {KeyText(k) : k \in Keys} \cup {<<Lit("unknown")>>}

CriticPrompts ==
    {Words(<<"What", "books", "are", "available", "in", "the", "library?">>),
     Words(<<"List", "the", "available", "books.">>),
     Words(<<"LIST", "the", "Books">>),
     Words(<<"do", "you", "have", "a", "Library">>),
     Words(<<"my", "playlist", "for", "the", "bookshelf">>),
     Words(<<"list", "the", "chapters">>),
     Words(<<"tell", "me", "about", "this", "book">>),
     Words(<<"who", "is", "ahab">>)}

\* ------------------------------------- the archivist (crew_agent_server)
\* A request text by what json.loads makes of it: "invalid" (JSONDecodeError),
\* "object" (with or without each field, book_title being bt), or another
\* JSON value.  A book_title is a string or a number whose text is the key
\* name k, the string "../k" ("parent"), or null.
Title(ty, k) == [ty |-> ty, k |-> k]

NoTitle == Title("null", 0)

Request(json, has_bt, has_q, bt) ==
    [json |-> json, has_bt |-> has_bt, has_q |-> has_q, bt |-> bt]

Titles == {Title(ty, k) : ty \in {"str", "num", "parent"}, k \in Keys} \cup {NoTitle}

Requests ==
    {Request("invalid", FALSE, FALSE, NoTitle)}
    \cup {Request(j, FALSE, FALSE, NoTitle) : j \in {"number", "string", "array", "null"}}
    \cup {Request("object", FALSE, q, NoTitle) : q \in BOOLEAN}
    \cup {Request("object", TRUE, q, bt) : q \in BOOLEAN, bt \in Titles}

\* The base name of f"{book_title}.txt" (null formats as None: no key).
TitleName(bt) == IF bt.ty \in {"str", "num", "parent"} THEN bt.k ELSE -1

\* os.path.join(<here>, "data", f"{book_title}.txt"): the directory the path
\* leads to and the base name of the file.
filename(bt) == [dir |-> IF bt.ty = "parent" THEN "parent" ELSE "data", base |-> TitleName(bt)]

\* os.path.isfile(data/<name>.txt)
isfile(f) ==
    /\ dataDir.exists
    /\ IF f.dir = "data" THEN Entry(f.base, "txt", TRUE) \in dataDir.entries
       ELSE f.base \in outside

\* What the collaborators outside this repository do when asked: whether
\* rag_tool.add indexes the file and whether crew.kickoff_async answers.
Collaborators == [rag : BOOLEAN, crew : BOOLEAN]

\* The handler's outcome with what it did on the way: the steps it entered,
\* the files it indexed, how often it ran the crew.
Trace(fault, msgs, steps, rag, crew) ==
    [fault |-> fault, msgs |-> msgs, steps |-> steps, rag |-> rag, crew |-> crew]

\* The archivist with one index for the whole process, holding every book.
archivist_agent_shared_index(req, ord, ext) ==
    IF req.json = "invalid" \/ (req.json = "object" /\ ~(req.has_bt /\ req.has_q))
    THEN \* JSONDecodeError, KeyError
         Trace(FALSE, <<PlainText("invalid_input_format", <<>>)>>, <<"parse">>, <<>>, 0)
    ELSE IF req.json # "object"
    THEN \* request_data['book_title'] on a non-dict: TypeError, not caught
         Trace(TRUE, <<>>, <<"parse">>, <<>>, 0)
    ELSE IF ~isfile(filename(req.bt))
    THEN LET ls == IF dataDir.exists THEN SelectSeq(listdir(ord), LAMBDA e : e.ext = "txt")
                   ELSE <<>>
             available == [i \in DOMAIN ls |-> ls[i].base]
         IN  IF req.bt.ty \notin {"str", "parent"}
             THEN \* "...'" + book_title: TypeError, not caught
                  Trace(TRUE, <<>>, <<"parse", "locate">>, <<>>, 0)
             ELSE Trace(FALSE, <<PlainText("requested_book_not_found", available)>>,
                        <<"parse", "locate">>, <<>>, 0)
    ELSE IF ~ext.rag
    THEN Trace(TRUE, <<>>, <<"parse", "locate", "materialize">>, <<>>, 0)
    ELSE IF ~ext.crew
    THEN Trace(TRUE, <<>>, <<"parse", "locate", "materialize", "delegate">>,
               [i \in DOMAIN TxtFiles(listdir(ord)) |->
                    [dir |-> "data", base |-> TxtFiles(listdir(ord))[i].base]], 1)
    ELSE Trace(FALSE, <<PlainText("task_output", <<>>)>>,
               <<"parse", "locate", "materialize", "delegate">>, [i \in DOMAIN TxtFiles(listdir(ord)) |->
                    [dir |-> "data", base |-> TxtFiles(listdir(ord))[i].base]], 1)

archivist_agent(req, ord, ext) ==
    IF req.json = "invalid" \/ (req.json = "object" /\ ~(req.has_bt /\ req.has_q))
    THEN \* JSONDecodeError, KeyError
         Trace(FALSE, <<PlainText("invalid_input_format", <<>>)>>, <<"parse">>, <<>>, 0)
    ELSE IF req.json # "object"
    THEN \* request_data['book_title'] on a non-dict: TypeError, not caught
         Trace(TRUE, <<>>, <<"parse">>, <<>>, 0)
    ELSE IF ~isfile(filename(req.bt))
    THEN LET ls == IF dataDir.exists THEN SelectSeq(listdir(ord), LAMBDA e : e.ext = "txt")
                   ELSE <<>>
             available == [i \in DOMAIN ls |-> ls[i].base]
         IN  IF req.bt.ty \notin {"str", "parent"}
             THEN \* "...'" + book_title: TypeError, not caught
                  Trace(TRUE, <<>>, <<"parse", "locate">>, <<>>, 0)
             ELSE Trace(FALSE, <<PlainText("requested_book_not_found", available)>>,
                        <<"parse", "locate">>, <<>>, 0)
    ELSE IF ~ext.rag
    THEN Trace(TRUE, <<>>, <<"parse", "locate", "materialize">>, <<>>, 0)
    ELSE IF ~ext.crew
    THEN Trace(TRUE, <<>>, <<"parse", "locate", "materialize", "delegate">>,
               <<filename(req.bt)>>, 1)
    ELSE Trace(FALSE, <<PlainText("task_output", <<>>)>>,
               <<"parse", "locate", "materialize", "delegate">>, <<filename(req.bt)>>, 1)

\* ------------------------------------------------- the specialist clients
\* What a caller gets from a call: it raised, or it returned text.
CallRaised == [raised |-> TRUE, text |-> NoContent]

CallReturn(t) == [raised |-> FALSE, text |-> t]

\* The archivist tool without its try/except.
critic_archivist_agent_no_except(run) ==
    IF run.raised THEN CallRaised
    ELSE IF run.output # <<>> THEN CallReturn(run.output[1])
    ELSE CallReturn(PlainText("Archivist returned no content.", <<>>))

\* The critic's archivist tool (archivist_agent of smolagents_server), given
\* the Run of its call.
critic_archivist_agent(run) ==
    IF run.raised THEN CallReturn(PlainText("Error communicating with Archivist agent", <<>>))
    ELSE IF run.output # <<>> THEN CallReturn(run.output[1])
    ELSE CallReturn(PlainText("Archivist returned no content.", <<>>))

\* call_agent of the interactive client, given the Run of its call.
call_agent(run) ==
    IF run.raised THEN CallRaised
    ELSE IF run.output # <<>> THEN CallReturn(run.output[1])
    ELSE IF run.error THEN CallReturn(PlainText("[ERROR]", <<>>))
    ELSE CallReturn(PlainText("[EMPTY RESPONSE]", <<>>))

Call(caller, req, res, run, h) ==
    [caller |-> caller, req |-> req, raised |-> res.raised, run |-> run, text |-> res.text,
     steps |-> IF run.raised THEN <<>> ELSE h.steps,
     rag |-> IF run.raised THEN <<>> ELSE h.rag,
     crew |-> IF run.raised THEN 0 ELSE h.crew]

\* ------------------------------------------------ key normalizer (main.py)
\* str.strip(): the blanks at both ends removed.
RECURSIVE lstrip(_)
lstrip(t) == IF t # <<>> /\ Head(t) = Lit(" ") THEN lstrip(Tail(t)) ELSE t

RECURSIVE rstrip(_)
rstrip(t) ==
    IF t # <<>> /\ t[Len(t)] = Lit(" ") THEN rstrip(SubSeq(t, 1, Len(t) - 1)) ELSE t

strip(t) == rstrip(lstrip(t))

\* "prideandprejudice", written with the tokens of its three words.
PrideAndPrejudice == <<Lit("pride"), Lit("and"), Lit("prejudice")>>

\* An alias table whose first entry leads to another alias.
ALIASES_get_chained(k, default) ==
    CASE k = <<Lit("pride"), Lit(" "), Lit("and"), Lit(" "), Lit("prejudice")>> ->
                <<Lit("pride"), Lit(" "), Lit("&"), Lit(" "), Lit("prejudice")>>
      [] k = <<Lit("pride"), Lit(" "), Lit("&"), Lit(" "), Lit("prejudice")>> -> PrideAndPrejudice
      [] k = <<Lit("pride"), Lit("and"), Lit(" "), Lit("predjudice")>> -> PrideAndPrejudice
      [] OTHER -> default

\* ALIASES.get(k, default)
ALIASES_get(k, default) ==
    CASE k = <<Lit("pride"), Lit(" "), Lit("and"), Lit(" "), Lit("prejudice")>> -> PrideAndPrejudice
      [] k = <<Lit("pride"), Lit(" "), Lit("&"), Lit(" "), Lit("prejudice")>> -> PrideAndPrejudice
      [] k = <<Lit("pride"), Lit("and"), Lit(" "), Lit("predjudice")>> -> PrideAndPrejudice
      [] OTHER -> default

normalize_key(user_key) ==
    LET k == lower(strip(user_key)) IN ALIASES_get(k, k)

\* The keys a user may type, up to MaxKeyLen tokens.
KeyAlphabet ==
    {Lit(" "), Lit("pride"), Lit("Pride"), Lit("and"), Lit("&"), Lit("prejudice"),
     Lit("predjudice")}

TypedKeys == UNION {[1..n -> KeyAlphabet] : n \in 0..MaxKeyLen}

\* ------------------------------------------- interactive client (main.py)
\* An agent table with one entry more than the client is configured with.
AgentNames_with_bogus == {"critic", "archivist", "catalog", "bogus"}

AgentNames == {"critic", "archivist", "catalog"}

\* An agent table whose every entry is the critic's.
AGENTS_all_critic(name) == [svc |-> "critic", agent |-> "literary_critic_agent"]

\* AGENTS[name]: the endpoint (by the service listening there) and the agent
\* name the client addresses.
AGENTS(name) ==
    CASE name = "critic" -> [svc |-> "critic", agent |-> "literary_critic_agent"]
      [] name = "archivist" -> [svc |-> "archivist", agent |-> "archivist_agent"]
      [] name = "catalog" -> [svc |-> "catalog", agent |-> "book_catalog_server"]

\* load_metadata of main.py: the local document, {} when it cannot be read.
client_load_metadata ==
    IF localDoc.st = "mapping" THEN Loaded(TRUE, "local", localDoc.keys)
    ELSE IF localDoc.st = "non_mapping" THEN Loaded(FALSE, "local", {})
    ELSE Loaded(TRUE, "none", {})

\* The lines whose text json.loads accepts: a request object for key k, and
\* a bare number.
JsonRequestLine(k) == <<Lit("{\"book_title\": , \"query\": \"q\"}"), KeyTok(k)>>

JsonLines == {JsonRequestLine(k) : k \in Keys} \cup {<<Lit("5")>>}

\* What the client sends: the line as typed, or json.dumps of book_title
\* (book) and query (text).
Payload(wrapped, text, book) == [wrapped |-> wrapped, text |-> text, book |-> book]

NoPayload == Payload(FALSE, <<>>, <<>>)

ListPromptOfClient == Words(<<"List", "the", "available", "books.">>)

\* What one turn of the loop did: where the loop is afterwards, the active
\* agent, the branch taken, what was printed, and the call made, if any.
NoStep ==
    [pc |-> "prompt", current |-> "", branch |-> "none", printed |-> NoContent,
     called |-> FALSE, svc |-> "", agent |-> "", payload |-> NoPayload,
     prompted |-> FALSE, run |-> RunRaised]

\* print("[Response]", await call_agent(url, agent_name, payload)): an
\* exception leaving call_agent leaves interactive() and ends the process.
Calling(r, branch, target, payload, prompted, peer) ==
    LET run == run_sync(target.svc, target.agent, peer)
        res == call_agent(run)
    IN  [r EXCEPT !.branch = branch, !.called = TRUE, !.svc = target.svc,
                  !.agent = target.agent, !.payload = payload, !.prompted = prompted,
                  !.run = run,
                  !.pc = IF res.raised THEN "crashed" ELSE "prompt",
                  !.printed = res.text]

\* One turn of the while loop of interactive() on the input line, where
\* answer is what the user gives if asked for a book key and peer is what the
\* addressed handler does with a request.
interactive(current, line, answer, peer) ==
    LET user_input == strip(line)
        lc == lower(user_input)
        r == [NoStep EXCEPT !.current = current]
    IN
    IF user_input = <<>> THEN [r EXCEPT !.branch = "empty"]
    ELSE IF lc \in {<<Lit("/exit")>>, <<Lit("exit")>>, <<Lit("quit")>>, <<Lit(":q")>>}
    THEN [r EXCEPT !.branch = "exit", !.pc = "exited", !.printed = PlainText("Goodbye!", <<>>)]
    ELSE IF lc \in {<<Lit("/help")>>, <<Lit("help")>>}
    THEN [r EXCEPT !.branch = "help", !.printed = PlainText("banner", <<>>)]
    ELSE IF lc \in {<<Lit("/agents")>>, <<Lit("agents")>>}
    THEN [r EXCEPT !.branch = "agents", !.printed = PlainText("agents", <<>>)]
    ELSE IF StartsWith(lc, <<Lit("/use"), Lit(" ")>>)
    THEN LET name == lower(strip(AfterFirst(user_input, Lit(" ")))) IN
         IF \E n \in AgentNames : name = <<Lit(n)>>
         THEN [r EXCEPT !.branch = "use",
                        !.current = CHOOSE n \in AgentNames : name = <<Lit(n)>>,
                        !.printed = PlainText("Switched to", <<>>)]
         ELSE [r EXCEPT !.branch = "use", !.printed = PlainText("Unknown agent", <<>>)]
    ELSE IF StartsWith(lc, <<Lit("/meta"), Lit(" ")>>)
    THEN LET key == normalize_key(AfterFirst(user_input, Lit(" ")))
             md == client_load_metadata
         IN  IF ~md.mapping
             THEN \* load_metadata().get: AttributeError
                  [r EXCEPT !.branch = "meta", !.pc = "crashed"]
             ELSE IF MetaGet(md, key) = EmptyMeta
             THEN [r EXCEPT !.branch = "meta", !.printed = PlainText("No metadata found", <<>>)]
             ELSE [r EXCEPT !.branch = "meta", !.printed = JsonObject(MetaGet(md, key))]
    ELSE IF lc \in {<<Lit("/list")>>, <<Lit("list")>>}
    THEN IF "critic" \in AgentNames
         THEN Calling(r, "list", AGENTS("critic"), Payload(FALSE, ListPromptOfClient, <<>>),
                      FALSE, peer)
         ELSE Calling(r, "list", AGENTS("catalog"),
                      Payload(FALSE, <<Lit("list_available_books")>>, <<>>), FALSE, peer)
    ELSE IF current = "archivist"
    THEN IF user_input \in JsonLines
         THEN Calling(r, "archivist", AGENTS(current), Payload(FALSE, user_input, <<>>),
                      FALSE, peer)
         ELSE IF answer.eof
         THEN \* input("Book key ..."): EOFError, outside the try
              [r EXCEPT !.branch = "archivist", !.prompted = TRUE, !.pc = "crashed"]
         ELSE Calling(r, "archivist", AGENTS(current),
                      Payload(TRUE, user_input, normalize_key(strip(answer.text))),
                      TRUE, peer)
    ELSE Calling(r, "plain", AGENTS(current), Payload(FALSE, user_input, <<>>), FALSE, peer)

\* The lines typed at the prompt.
ClientLines ==
    {<<>>, <<Lit(" ")>>,
     <<Lit("/exit")>>, <<Lit(":q")>>, <<Lit("/help")>>, <<Lit("/agents")>>,
     <<Lit("/use")>>, <<Lit("/use"), Lit(" "), Lit("bogus")>>,
     <<Lit("/USE"), Lit(" "), Lit("Archivist"), Lit(" ")>>,
     <<Lit("/meta")>>, <<Lit("/bogus")>>,
     <<Lit("/list")>>, <<Lit(" "), Lit("/List")>>, <<Lit("list")>>,
     Words(<<"who", "is", "ahab">>), <<Lit("5")>>}
    \cup {<<Lit("/use"), Lit(" "), Lit(n)>> : n \in AgentNames}
    \cup {<<Lit("/meta"), Lit(" ")>> \o KeyText(k) : k \in Keys}
    \cup {JsonRequestLine(k) : k \in Keys}

\* The answers to the book-key prompt: end of input, or a typed key.
Answers ==
    {[eof |-> TRUE, text |-> <<>>]}
    \cup {[eof |-> FALSE, text |-> t] :
            t \in {KeyText(k) : k \in Keys}
                  \cup {<<Lit(" "), Lit("Pride"), Lit(" "), Lit("&"), Lit(" "), Lit("prejudice")>>}}

\* What the addressed handler does with the request: it yields one message,
\* or it faults.
PeerOutcomes == {Yield(<<PlainText("reply", <<>>)>>), Fault}

\* Nothing was typed at the book-key prompt (it was not shown).
NoAnswer == [eof |-> FALSE, text |-> <<>>]

NoLine == [line |-> <<>>, before |-> "", answer |-> NoAnswer, res |-> NoStep]

\* ------------------------------------------------- the environment's moves
\* catLast is the reply a caller is holding: a query is made when none is
\* held, and the environment moves between queries.
NoQuery ==
    [op |-> "none", prompt |-> <<>>, fault |-> FALSE, out |-> <<>>, val |-> PyList(<<>>)]

Query(op, prompt, fault, out, val) ==
    [op |-> op, prompt |-> prompt, fault |-> fault, out |-> out, val |-> val]

NoCall ==
    [caller |-> "none", req |-> Request("none", FALSE, FALSE, NoTitle), raised |-> FALSE,
     run |-> RunRaised, text |-> NoContent, steps |-> <<>>, rag |-> <<>>, crew |-> 0]

\* No caller holds a reply.
Quiet == catLast = NoQuery /\ archLast = NoCall /\ cliLast = NoLine

EnvInit ==
    /\ remoteSrc = [st |-> "unset", keys |-> {}]
    /\ localDoc = [st |-> "missing", keys |-> {}]
    /\ dataDir = [exists |-> TRUE, entries |-> {}]
    /\ useMcp \in BOOLEAN
    /\ outside = {}
    /\ svcState = [svc \in Services |-> "up"]

\* The remote metadata source changes what a GET of BOOK_METADATA_URL gives.
SetRemote(st, keys) ==
    /\ Quiet
    /\ st = "mapping" \/ keys = {}
    /\ remoteSrc' = [st |-> st, keys |-> keys]
    /\ remoteSrc' # remoteSrc
    /\ UNCHANGED <<localDoc, dataDir, useMcp, svcState, outside, catVars, archVars, cliVars, normVars, waitVars>>

\* book_metadata.json is written, damaged or removed.
SetLocal(st, keys) ==
    /\ Quiet
    /\ st = "mapping" \/ keys = {}
    /\ localDoc' = [st |-> st, keys |-> keys]
    /\ localDoc' # localDoc
    /\ UNCHANGED <<remoteSrc, dataDir, useMcp, svcState, outside, catVars, archVars, cliVars, normVars, waitVars>>

\* A file or a directory appears in data/.
PutEntry(e) ==
    /\ Quiet
    /\ dataDir.exists
    /\ \A x \in dataDir.entries : ~SameName(x, e)
    /\ dataDir' = [dataDir EXCEPT !.entries = @ \cup {e}]
    /\ UNCHANGED <<remoteSrc, localDoc, useMcp, svcState, outside, catVars, archVars, cliVars, normVars, waitVars>>

RemoveEntry(e) ==
    /\ Quiet
    /\ e \in dataDir.entries
    /\ dataDir' = [dataDir EXCEPT !.entries = @ \ {e}]
    /\ UNCHANGED <<remoteSrc, localDoc, useMcp, svcState, outside, catVars, archVars, cliVars, normVars, waitVars>>

\* data/ itself is removed (when empty) or created.
ToggleDataDir ==
    /\ Quiet
    /\ dataDir.entries = {}
    /\ dataDir' = [dataDir EXCEPT !.exists = ~@]
    /\ UNCHANGED <<remoteSrc, localDoc, useMcp, svcState, outside, catVars, archVars, cliVars, normVars, waitVars>>

\* A file <k>.txt appears beside data/ (in the directory of the servers), or
\* goes.
PutOutside(k) ==
    /\ Quiet
    /\ k \notin outside
    /\ outside' = outside \cup {k}
    /\ UNCHANGED <<remoteSrc, localDoc, dataDir, useMcp, svcState, catVars, archVars, cliVars, normVars, waitVars>>

RemoveOutside(k) ==
    /\ Quiet
    /\ k \in outside
    /\ outside' = outside \ {k}
    /\ UNCHANGED <<remoteSrc, localDoc, dataDir, useMcp, svcState, catVars, archVars, cliVars, normVars, waitVars>>

\* An endpoint goes down (in one of the ways a call to it fails) or comes up.
SetService(svc, st) ==
    /\ Quiet
    /\ svcState[svc] # st
    /\ svcState' = [svcState EXCEPT ![svc] = st]
    /\ UNCHANGED <<remoteSrc, localDoc, dataDir, useMcp, outside, catVars, archVars, cliVars, normVars, waitVars>>

\* The caller has read the reply it held; a request the critic has finished
\* is over with that.
TakeReply ==
    /\ catLast # NoQuery
    /\ catLast' = NoQuery
    /\ router' = IF router.pc = "idle" THEN [pc |-> "idle", yielded |-> 0, runs |-> 0, fault |-> FALSE]
                 ELSE router
    /\ UNCHANGED <<envVars, archVars, cliVars, normVars, waitVars>>

\* ------------------------------------------------ catalog and router steps
\* The critic: idle, or (pc = "deciding") inside agent.run for a request;
\* yielded counts the messages it has yielded for its latest request, runs how
\* often that request ran the decision function, fault whether agent.run raised.
RouterIdle == [pc |-> "idle", yielded |-> 0, runs |-> 0, fault |-> FALSE]

RouterDeciding == [pc |-> "deciding", yielded |-> 0, runs |-> 1, fault |-> FALSE]

\* A client's request reaches the catalog server and is handled.
CatalogRequest(prompt, ord) ==
    /\ catLast = NoQuery
    /\ svcState["catalog"] = "up"
    /\ LET r == book_catalog_agent(prompt, ord)
       IN  catLast' = Query("catalog", prompt, r.fault, r.msgs, PyList(<<>>))
    /\ UNCHANGED <<envVars, router, archVars, cliVars, normVars, waitVars>>

\* A request reaches the critic: answered on the fast path, or handed to the
\* decision function (agent.run), which then runs until it answers.
CriticRequest(prompt, ord) ==
    /\ catLast = NoQuery
    /\ router.pc = "idle"
    /\ LET r == literary_critic_agent(prompt, ord) IN
       /\ catLast' = Query("critic", prompt, FALSE, r.msgs, PyList(<<>>))
       /\ router' = IF r.fast THEN [RouterIdle EXCEPT !.yielded = Len(r.msgs)] ELSE RouterDeciding
    /\ UNCHANGED <<envVars, archVars, cliVars, normVars, waitVars>>

\* The decision function invokes list_available_books().
ToolListBooks(ord) ==
    /\ catLast = NoQuery
    /\ router.pc = "deciding"
    /\ LET r == list_available_books(ord)
       IN  catLast' = Query("list_available_books", <<>>, r.fault, <<>>, r.val)
    /\ UNCHANGED <<envVars, router, archVars, cliVars, normVars, waitVars>>

\* The decision function invokes get_book_metadata(book_key).
ToolGetMetadata(book_key, ord) ==
    /\ catLast = NoQuery
    /\ router.pc = "deciding"
    /\ LET r == get_book_metadata(book_key, ord)
       IN  catLast' = Query("get_book_metadata", book_key, r.fault, <<>>, r.val)
    /\ UNCHANGED <<envVars, router, archVars, cliVars, normVars, waitVars>>

\* agent.run returns: the critic yields str(response) and is done.
AgentAnswer ==
    /\ catLast = NoQuery
    /\ router.pc = "deciding"
    /\ router' = [router EXCEPT !.pc = "idle", !.yielded = @ + 1]
    /\ catLast' = Query("agent_run", <<>>, FALSE, <<PlainText("agent_answer", <<>>)>>, PyList(<<>>))
    /\ UNCHANGED <<envVars, archVars, cliVars, normVars, waitVars>>

\* agent.run raises (the model call fails): the critic yields nothing.
AgentFault ==
    /\ catLast = NoQuery
    /\ router.pc = "deciding"
    /\ router' = [router EXCEPT !.pc = "idle", !.fault = TRUE]
    /\ catLast' = Query("agent_run", <<>>, TRUE, <<>>, PyList(<<>>))
    /\ UNCHANGED <<envVars, archVars, cliVars, normVars, waitVars>>

EnvNext ==
    \/ \E st \in RemoteStates, keys \in SUBSET Keys : SetRemote(st, keys)
    \/ \E st \in LocalStates, keys \in SUBSET Keys : SetLocal(st, keys)
    \/ \E e \in EntryUniverse : PutEntry(e)
    \/ \E e \in EntryUniverse : RemoveEntry(e)
    \/ ToggleDataDir
    \/ \E st \in {"up", "refused"} : SetService("catalog", st)
    \/ TakeReply

\* The catalog service and the router's two catalog tools, the tools as
\* invoked by a delegated request in progress at the critic.
CatalogNext ==
    \/ EnvNext
    \/ \E p \in CatalogPrompts, ord \in Orders : CatalogRequest(p, ord)
    \/ \E ord \in Orders : ToolListBooks(ord)
    \/ \E key \in BookKeys, ord \in Orders : ToolGetMetadata(key, ord)

\* The critic's handling of requests.
RouterNext ==
    \/ EnvNext
    \/ \E p \in CriticPrompts, ord \in Orders : CriticRequest(p, ord)
    \/ \E ord \in Orders : ToolListBooks(ord)
    \/ AgentAnswer
    \/ AgentFault

vars == <<envVars, catVars, archVars, cliVars, normVars, waitVars>>

\* The places where a process waits for a peer: the metadata fetch of the
\* catalog store, the two kinds of tool call of the critic, and call_agent
\* of the interactive client.
Sites == {"load_metadata", "catalog_tool", "archivist_tool", "call_agent"}

\* A site: idle, waiting for a peer that will answer or stay silent, done
\* with an outcome, or ended with its process.
SiteIdle == [pc |-> "idle", peer |-> "none", outcome |-> "none"]

\* The parts of the system a specification leaves at rest.
WaitRest == wait = [bounded |-> FALSE, site |-> [s \in Sites |-> SiteIdle]]

ArchRest == archLast = NoCall

ClientStart == cli = [pc |-> "prompt", current |-> "critic"] /\ cliLast = NoLine

NormRest == norm = [pc |-> "input", x |-> <<>>, once |-> <<>>, twice |-> <<>>]

CatRest == catLast = NoQuery /\ router = RouterIdle

\* A delegated request is in progress at the critic, whose decision function
\* invokes the catalog tools.
CatalogInit ==
    /\ EnvInit /\ catLast = NoQuery /\ router = RouterDeciding
    /\ ArchRest /\ ClientStart /\ NormRest /\ WaitRest

SpecCatalog == CatalogInit /\ [][CatalogNext]_vars

RouterInit == EnvInit /\ CatRest /\ ArchRest /\ ClientStart /\ NormRest /\ WaitRest

SpecRouter == RouterInit /\ [][RouterNext]_vars

\* Some ACP client's request reaches the archivist and is handled.
ArchivistRequest(req, ord, ext) ==
    /\ archLast = NoCall
    /\ svcState["archivist"] = "up"
    /\ LET h == archivist_agent(req, ord, ext)
           run == run_sync("archivist", "archivist_agent", h)
       IN  archLast' = Call("acp", req, CallReturn(NoContent), run, h)
    /\ UNCHANGED <<envVars, catVars, cliVars, normVars, waitVars>>

\* The decision function invokes the archivist tool with the string req.
CriticCallsArchivist(req, ord, ext) ==
    /\ archLast = NoCall
    /\ LET h == archivist_agent(req, ord, ext)
           run == run_sync("archivist", "archivist_agent", h)
       IN  archLast' = Call("critic", req, critic_archivist_agent(run), run, h)
    /\ UNCHANGED <<envVars, catVars, cliVars, normVars, waitVars>>

\* The interactive client calls the archivist with the payload req.
ClientCallsArchivist(req, ord, ext) ==
    /\ archLast = NoCall
    /\ LET h == archivist_agent(req, ord, ext)
           run == run_sync("archivist", "archivist_agent", h)
       IN  archLast' = Call("client", req, call_agent(run), run, h)
    /\ UNCHANGED <<envVars, catVars, cliVars, normVars, waitVars>>

\* The caller has read the outcome.
TakeArchivistReply ==
    /\ archLast # NoCall
    /\ archLast' = NoCall
    /\ UNCHANGED <<envVars, catVars, cliVars, normVars, waitVars>>

ArchivistNext ==
    \/ \E e \in EntryUniverse : PutEntry(e)
    \/ \E e \in EntryUniverse : RemoveEntry(e)
    \/ \E k \in Keys : PutOutside(k)
    \/ \E k \in Keys : RemoveOutside(k)
    \/ ToggleDataDir
    \/ \E st \in {"up"} \cup TransportFailures : SetService("archivist", st)
    \/ \E req \in Requests, ord \in Orders, ext \in Collaborators : ArchivistRequest(req, ord, ext)
    \/ \E req \in Requests, ord \in Orders, ext \in Collaborators : CriticCallsArchivist(req, ord, ext)
    \/ \E req \in Requests, ord \in Orders, ext \in Collaborators : ClientCallsArchivist(req, ord, ext)
    \/ TakeArchivistReply

ArchivistInit == EnvInit /\ CatRest /\ ArchRest /\ ClientStart /\ NormRest /\ WaitRest

SpecArchivist == ArchivistInit /\ [][ArchivistNext]_vars

\* ------------------------------------------------ the interactive client
\* The user types a line; the loop handles it.
ClientReadsLine(line, answer, peer) ==
    /\ cli.pc = "prompt"
    /\ cliLast = NoLine
    /\ LET r == interactive(cli.current, line, answer, peer) IN
       /\ cli' = [pc |-> r.pc, current |-> r.current]
       /\ cliLast' = [line |-> line, before |-> cli.current,
                      answer |-> IF r.prompted THEN answer ELSE NoAnswer, res |-> r]
    /\ UNCHANGED <<envVars, catVars, archVars, normVars, waitVars>>

\* End of input (or Ctrl-C) at the prompt: "Exiting...".
ClientInputEnds ==
    /\ cli.pc = "prompt"
    /\ cliLast = NoLine
    /\ cli' = [cli EXCEPT !.pc = "exited"]
    /\ UNCHANGED <<envVars, catVars, archVars, normVars, waitVars, cliLast>>

\* The turn is over: the loop is back at input("> ").
ClientNextTurn ==
    /\ cliLast # NoLine
    /\ cliLast' = NoLine
    /\ UNCHANGED <<envVars, catVars, archVars, normVars, waitVars, cli>>

ClientNext ==
    \/ \E svc \in Services, st \in {"up"} \cup TransportFailures : SetService(svc, st)
    \/ \E st \in LocalStates, keys \in SUBSET Keys : SetLocal(st, keys)
    \/ \E line \in ClientLines, answer \in Answers, peer \in PeerOutcomes :
          ClientReadsLine(line, answer, peer)
    \/ ClientInputEnds
    \/ ClientNextTurn

ClientInit == EnvInit /\ CatRest /\ ArchRest /\ ClientStart /\ NormRest /\ WaitRest

SpecClient == ClientInit /\ [][ClientNext]_vars

\* ------------------------------------------------------ the key normalizer
NormalizeOnce ==
    /\ norm.pc = "input"
    /\ norm' = [norm EXCEPT !.pc = "once", !.once = normalize_key(norm.x)]
    /\ UNCHANGED <<envVars, catVars, archVars, cliVars, waitVars>>

NormalizeTwice ==
    /\ norm.pc = "once"
    /\ norm' = [norm EXCEPT !.pc = "twice", !.twice = normalize_key(norm.once)]
    /\ UNCHANGED <<envVars, catVars, archVars, cliVars, waitVars>>

NormalizerNext == NormalizeOnce \/ NormalizeTwice

\* A key has been typed and is about to be normalized.
NormalizerInit ==
    /\ EnvInit /\ useMcp = FALSE /\ CatRest /\ ArchRest /\ ClientStart
    /\ norm \in {[pc |-> "input", x |-> t, once |-> <<>>, twice |-> <<>>] : t \in TypedKeys}
    /\ WaitRest

SpecNormalizer == NormalizerInit /\ [][NormalizerNext]_vars

\* ------------------------------------------------------ waiting for a peer
\* The wait at a site is bounded: requests.get carries timeout=10; the ACP
\* calls pass no timeout, so theirs is whatever the client library, which is
\* not part of this program, applies by default (wait.bounded).
HasTimeout(s) == IF s = "load_metadata" THEN TRUE ELSE wait.bounded

\* What the code at a site does with the exception of an expired wait.
OnExpiry(s) ==
    CASE s = "load_metadata" -> "fallback"        \* except Exception: pass
      [] s = "catalog_tool" -> "fallback"         \* except Exception: pass
      [] s = "archivist_tool" -> "error_string"   \* except Exception as e: return ...
      [] s = "call_agent" -> "raised"             \* no handler: interactive() ends

\* A request is sent from site s to a peer that will answer or never will.
StartCall(s, peer) ==
    /\ wait.site[s].pc = "idle"
    /\ wait' = [wait EXCEPT !.site[s] = [pc |-> "waiting", peer |-> peer, outcome |-> "none"]]
    /\ UNCHANGED <<envVars, catVars, archVars, cliVars, normVars>>

PeerResponds(s) ==
    /\ wait.site[s].pc = "waiting"
    /\ wait.site[s].peer = "answers"
    /\ wait' = [wait EXCEPT !.site[s].pc = "done", !.site[s].outcome = "reply"]
    /\ UNCHANGED <<envVars, catVars, archVars, cliVars, normVars>>

\* The bounded wait is over: the call raises at the site.
WaitExpires(s) ==
    /\ wait.site[s].pc = "waiting"
    /\ HasTimeout(s)
    /\ wait' = [wait EXCEPT !.site[s].pc = "done", !.site[s].outcome = OnExpiry(s)]
    /\ UNCHANGED <<envVars, catVars, archVars, cliVars, normVars>>

\* The site goes on after its call: to its next call, or, when an exception
\* left it, nowhere.
SiteContinues(s) ==
    /\ wait.site[s].pc = "done"
    /\ wait' = [wait EXCEPT !.site[s] = IF @.outcome = "raised"
                                         THEN [@ EXCEPT !.pc = "ended"]
                                         ELSE SiteIdle]
    /\ UNCHANGED <<envVars, catVars, archVars, cliVars, normVars>>

WaitsNext ==
    \/ \E s \in Sites, peer \in {"answers", "silent"} : StartCall(s, peer)
    \/ \E s \in Sites : PeerResponds(s)
    \/ \E s \in Sites : WaitExpires(s)
    \/ \E s \in Sites : SiteContinues(s)

WaitsInit ==
    /\ EnvInit /\ useMcp = TRUE /\ CatRest /\ ArchRest /\ ClientStart /\ NormRest
    /\ wait \in {[bounded |-> b, site |-> [s \in Sites |-> SiteIdle]] : b \in BOOLEAN}

\* A peer that answers does so eventually, and a timer that runs expires.
SpecWaits ==
    /\ WaitsInit /\ [][WaitsNext]_vars
    /\ \A s \in Sites : WF_vars(PeerResponds(s)) /\ WF_vars(WaitExpires(s))

\* ================================================================= claims
\* What the claims speak of, read off the environment itself.

\* The texts by which a specialist client reports a failed call, and those by
\* which it reports a call that produced nothing.
ErrorPrefixes == {"[ERROR]", "Error communicating with Archivist agent"}

NoContentSentinels == {"[EMPTY RESPONSE]", "Archivist returned no content."}

\* C1: in the interactive client, a specialist call made while the addressed
\* endpoint fails at transport level does not end the loop: an error-prefixed
\* string is printed, the loop is back at its prompt, and the active agent is
\* the one it was.
C1_TransportFailureIsPrinted ==
    (cliLast # NoLine /\ cliLast.res.called
        /\ svcState[cliLast.res.svc] \in TransportFailures)
    => /\ cliLast.res.pc = "prompt"
       /\ cliLast.res.printed.tag \in ErrorPrefixes
       /\ cliLast.res.current = cliLast.before

\* C2: whatever string the decision function passes to the archivist tool,
\* the tool returns and raises nothing; when the archivist endpoint is not
\* reachable, what it returns is the error-prefixed string.
C2_ArchivistToolNeverRaises ==
    archLast.caller = "critic"
    => /\ ~archLast.raised
       /\ svcState["archivist"] # "up"
            => /\ archLast.run.raised
               /\ archLast.text = PlainText("Error communicating with Archivist agent", <<>>)

\* The archivist tool was called with the endpoint unreachable, and returned.
C2_Witness ==
    /\ archLast.caller = "critic"
    /\ svcState["archivist"] \in TransportFailures
    /\ archLast.text.tag \in ErrorPrefixes

\* C3: for every completed specialist call, by the archivist tool of the
\* critic and by call_agent of the client, a non-empty output gives the text
\* of its first message, a success with empty output gives the "no content"
\* sentinel, and a Run that ended in an error gives the error-prefixed string,
\* never the sentinel.
C3_RunResultToText ==
    (archLast.caller \in {"critic", "client"} /\ ~archLast.run.raised)
    => /\ ~archLast.raised
       /\ archLast.run.output # <<>> => archLast.text = archLast.run.output[1]
       /\ (archLast.run.output = <<>> /\ ~archLast.run.error)
            => archLast.text.tag \in NoContentSentinels
       /\ archLast.run.error
            => /\ archLast.text.tag \in ErrorPrefixes
               /\ archLast.text.tag \notin NoContentSentinels

\* The keys k with a regular file <k>.txt in the content directory.
FileKeys ==
    IF dataDir.exists
    THEN {e.base : e \in {x \in dataDir.entries : x.ext = "txt" /\ x.isfile}}
    ELSE {}

\* The ascending enumeration of a set of keys.
RECURSIVE Ascending(_)
Ascending(S) ==
    IF S = {} THEN <<>>
    ELSE LET m == CHOOSE x \in S : \A y \in S : x <= y IN <<m>> \o Ascending(S \ {m})

\* The metadata mapping the catalog store resolves (remote first, then local).
ResolvedIsMapping ==
    IF remoteSrc.st \in {"mapping", "non_mapping"} THEN remoteSrc.st = "mapping"
    ELSE localDoc.st # "non_mapping"

ResolvedKeys ==
    IF remoteSrc.st = "mapping" THEN remoteSrc.keys
    ELSE IF remoteSrc.st # "non_mapping" /\ localDoc.st = "mapping" THEN localDoc.keys
    ELSE {}

ResolvedSrc ==
    IF remoteSrc.st = "mapping" THEN "remote" ELSE "local"

\* The key set of the catalog store: metadata keys, else the directory's.
StoreKeys == IF ResolvedKeys # {} THEN ResolvedKeys ELSE FileKeys

IsListReply == catLast.op = "catalog" /\ catLast.prompt = ListPrompt

IsMetaReply(k) == catLast.op = "catalog" /\ catLast.prompt = MetaPrompt(KeyText(k))

\* The reply is one message holding the JSON array of exactly the keys S.
RepliesKeys(S) ==
    /\ ~catLast.fault
    /\ Len(catLast.out) = 1
    /\ catLast.out[1].enc = "json" /\ catLast.out[1].ty = "list"
    /\ Range(catLast.out[1].items) = S

RepliesMeta(m) == ~catLast.fault /\ catLast.out = <<JsonObject(m)>>

C5_FallbackListsStoreKeys ==
    (/\ catLast.op = "list_available_books"
     /\ svcState["catalog"] # "up"
     /\ remoteSrc.st = "unset"
     /\ localDoc.st # "non_mapping")
    => (~catLast.fault /\ Range(catLast.val.items) = StoreKeys)

\* What the local document and the directory alone give.
LocalKeys == IF localDoc.st = "mapping" THEN localDoc.keys ELSE {}

LocalOnlyKeys == IF LocalKeys # {} THEN LocalKeys ELSE FileKeys

LocalOnlyMeta(k) == IF k \in LocalKeys THEN Meta("local", k) ELSE EmptyMeta

Tier1Failed == remoteSrc.st \in RemoteFailures \cup {"non_mapping"}

\* C6: when tier 1 fails, no failure reaches the caller and the listing and
\* every metadata lookup are those of the local document and the scan.
C6_Tier1FailureFallsBack ==
    (Tier1Failed /\ localDoc.st # "non_mapping") =>
        /\ IsListReply => RepliesKeys(LocalOnlyKeys)
        /\ \A k \in Keys : IsMetaReply(k) => RepliesMeta(LocalOnlyMeta(k))

\* The request text is not a JSON object carrying both fields.
Malformed(req) == req.json # "object" \/ ~(req.has_bt /\ req.has_q)

\* C7: a request text that is not a JSON object with both book_title and
\* query (not JSON, an object missing a field, or another JSON value) gets a
\* normal response of one message describing the expected shape; the
\* archivist does not fault and goes no further than parsing.
C7_MalformedRequestIsExplained ==
    (archLast.caller # "none" /\ ~archLast.run.raised /\ Malformed(archLast.req))
    => /\ ~archLast.run.error
       /\ archLast.run.output = <<PlainText("invalid_input_format", <<>>)>>
       /\ archLast.steps = <<"parse">>

\* The keys of the entries of the content directory named <key>.txt.
AvailableKeys ==
    IF dataDir.exists THEN {e.base : e \in {x \in dataDir.entries : x.ext = "txt"}} ELSE {}

\* C8: a well-formed request whose book_title names no content file, whatever
\* JSON value the title is, gets a normal response of one message listing the
\* keys found in the content directory at that moment; no retrieval pipeline
\* is built and the crew is not run.
C8_UnknownBookListsAvailable ==
    (archLast.caller # "none" /\ ~archLast.run.raised /\ ~Malformed(archLast.req)
        /\ ~isfile(filename(archLast.req.bt)))
    => /\ ~archLast.run.error
       /\ Len(archLast.run.output) = 1
       /\ archLast.run.output[1].tag = "requested_book_not_found"
       /\ Range(archLast.run.output[1].items) = AvailableKeys
       /\ archLast.steps = <<"parse", "locate">>
       /\ archLast.rag = <<>> /\ archLast.crew = 0

\* The prompt names a book or library noun together with a listing word.
AsksForListing(prompt) ==
    /\ \E n \in {"book", "library"} : In(n, lower(prompt))
    /\ \E w \in {"list", "available", "have"} : In(w, lower(prompt))

\* The one message of the fast path for the key set S.
ListingOf(S) ==
    IF S = {} THEN PlainText("no_books_found", <<>>)
    ELSE PlainText("available_books", Ascending(S))

\* The keys list_available_books() has to offer: the catalog service's
\* listing when catalog discovery is on and the service answers, else the
\* directory's keys.
DiscoveredKeys ==
    IF useMcp /\ svcState["catalog"] = "up" /\ ResolvedIsMapping THEN StoreKeys
    ELSE FileKeys

CanonicalKeys == {PrideAndPrejudice}

\* C10: normalizing a normalized key changes nothing, for every typed key;
\* and no canonical key of the alias table is, trimmed and lower-cased, an
\* alias of another key.
C10_NormalizeIsIdempotent ==
    /\ norm.pc = "twice" => norm.twice = norm.once
    /\ \A c \in CanonicalKeys : LET k == lower(strip(c)) IN ALIASES_get(k, k) = c

\* A key typed with blanks around an alias has been normalized twice.
C10_Witness ==
    /\ norm.pc = "twice"
    /\ norm.once = PrideAndPrejudice
    /\ norm.x # strip(norm.x)
    /\ lower(strip(norm.x)) # PrideAndPrejudice

\* The names the client is configured with, and the /use command of a line.
ConfiguredNames == {"critic", "archivist", "catalog"}

IsUseLine(line) == StartsWith(lower(strip(line)), <<Lit("/use"), Lit(" ")>>)

UseName(line) == lower(strip(AfterFirst(strip(line), Lit(" "))))

\* C11: the active selection starts as "critic" and is always a configured
\* name; "/use <name>" with a configured name selects it, with an unknown
\* name prints an error and keeps the selection, and no other line changes
\* the selection.
C11_SelectionFollowsUse ==
    /\ cli.current = "critic"
    /\ [](/\ cli.current \in ConfiguredNames
          /\ cliLast # NoLine =>
                /\ cli.current = cliLast.res.current
                /\ IF IsUseLine(cliLast.line)
                   THEN IF \E n \in ConfiguredNames : UseName(cliLast.line) = <<Lit(n)>>
                        THEN /\ UseName(cliLast.line) = <<Lit(cli.current)>>
                             /\ cliLast.res.printed.tag = "Switched to"
                        ELSE /\ cli.current = cliLast.before
                             /\ cliLast.res.printed.tag = "Unknown agent"
                   ELSE cli.current = cliLast.before)

\* "/USE Archivist " was typed with the critic active: the archivist is.
C11_Witness ==
    /\ cliLast.line = <<Lit("/USE"), Lit(" "), Lit("Archivist"), Lit(" ")>>
    /\ cliLast.before = "critic"
    /\ cli.current = "archivist"

\* The words of the typed lines that begin with a slash.
SlashWords == {"/exit", "/help", "/agents", "/use", "/USE", "/meta", "/list", "/List", "/bogus"}

\* The line is a command the client knows: /exit, /help, /agents, /list,
\* "/use <name>" or "/meta <key>".
IsKnownCommand(line) ==
    LET lc == lower(strip(line)) IN
    \/ lc \in {<<Lit("/exit")>>, <<Lit("/help")>>, <<Lit("/agents")>>, <<Lit("/list")>>}
    \/ StartsWith(lc, <<Lit("/use"), Lit(" ")>>)
    \/ StartsWith(lc, <<Lit("/meta"), Lit(" ")>>)

\* The line begins with a slash and is none of the known commands.
IsUnknownCommand(line) ==
    /\ strip(line) # <<>>
    /\ Head(strip(line)).s \in SlashWords
    /\ ~IsKnownCommand(line)

\* C12: a line that begins with "/" and is not a known command ("/use" and
\* "/meta" without an argument included) is answered by the client itself
\* with a message: no call is made, and the selection and the loop stay as
\* they were.
C12_UnknownCommandIsRejectedLocally ==
    (cliLast # NoLine /\ IsUnknownCommand(cliLast.line))
    => /\ ~cliLast.res.called
       /\ ~cliLast.res.prompted
       /\ cliLast.res.printed # NoContent
       /\ cliLast.res.current = cliLast.before
       /\ cliLast.res.pc = "prompt"

IsListLine(line) == lower(strip(line)) \in {<<Lit("/list")>>, <<Lit("list")>>}

\* C13: on "/list" the client asks the critic when it is up and otherwise
\* the catalog service, so that the request is served whenever one of the
\* two is up; the fallback names the agent registered at the catalog endpoint
\* and sends the request that service answers with the key list.
C13_ListFallsBackToCatalog ==
    (cliLast # NoLine /\ IsListLine(cliLast.line)
        /\ (svcState["critic"] = "up" \/ svcState["catalog"] = "up"))
    => /\ cliLast.res.called
       /\ ~cliLast.res.run.raised
       /\ cliLast.res.pc = "prompt"
       /\ IF svcState["critic"] = "up"
          THEN cliLast.res.svc = "critic" /\ cliLast.res.agent = Registered("critic")
          ELSE /\ cliLast.res.svc = "catalog"
               /\ cliLast.res.agent = Registered("catalog")
               /\ cliLast.res.payload.text = ListPrompt

\* The catalog service answers a metadata request: it is up and the metadata
\* it resolves is a mapping.
CatalogServes == svcState["catalog"] = "up" /\ ResolvedIsMapping

\* The entry for book_key in the metadata the catalog service resolves, and
\* in the local metadata document.
ResolvedEntry(book_key) ==
    IF \E k \in ResolvedKeys : book_key = KeyText(k)
    THEN Meta(ResolvedSrc, (CHOOSE k \in ResolvedKeys : book_key = KeyText(k)))
    ELSE EmptyMeta

LocalEntry(book_key) ==
    IF \E k \in LocalKeys : book_key = KeyText(k)
    THEN Meta("local", (CHOOSE k \in LocalKeys : book_key = KeyText(k)))
    ELSE EmptyMeta

\* C14: get_book_metadata(key) returns the catalog service's answer when the
\* service answers, and otherwise the key's entry in the local metadata
\* document, the empty mapping when there is none or the document cannot be
\* read; it never raises.
C14_MetadataToolTwoTiers ==
    catLast.op = "get_book_metadata"
    => /\ ~catLast.fault
       /\ catLast.val = PyDict(IF CatalogServes THEN ResolvedEntry(catLast.prompt)
                               ELSE LocalEntry(catLast.prompt))

\* The line is a question: not empty, not a slash line, not one of the bare
\* command words.
IsFreeForm(line) ==
    /\ strip(line) # <<>>
    /\ Head(strip(line)).s \notin SlashWords
    /\ lower(strip(line)) \notin {<<Lit("exit")>>, <<Lit("quit")>>, <<Lit(":q")>>,
                                   <<Lit("help")>>, <<Lit("agents")>>, <<Lit("list")>>}

\* The agent name each configured entry addresses.
AddressedAgent(name) ==
    CASE name = "critic" -> "literary_critic_agent"
      [] name = "archivist" -> "archivist_agent"
      [] name = "catalog" -> "book_catalog_server"

\* C15: a question typed with the archivist active is forwarded as typed and
\* without a prompt when it is valid JSON, and otherwise, after one prompt
\* for a book key, as the JSON object of book_title = normalize_key(the key
\* entered) and query = the line; with another agent active it is forwarded
\* as typed.  One call is made, to the endpoint and agent of the selection.
C15_QuestionIsForwarded ==
    (cliLast # NoLine /\ IsFreeForm(cliLast.line) /\ ~cliLast.answer.eof)
    => /\ cliLast.res.called
       /\ cliLast.res.svc = cliLast.before
       /\ cliLast.res.agent = AddressedAgent(cliLast.before)
       /\ cliLast.res.current = cliLast.before
       /\ IF cliLast.before = "archivist" /\ strip(cliLast.line) \notin JsonLines
          THEN /\ cliLast.res.prompted
               /\ cliLast.res.payload.wrapped
               /\ cliLast.res.payload.text = strip(cliLast.line)
               /\ cliLast.res.payload.book = normalize_key(cliLast.answer.text)
          ELSE /\ ~cliLast.res.prompted
               /\ cliLast.res.payload = Payload(FALSE, strip(cliLast.line), <<>>)

\* With the archivist active a question was typed and the key
\* " Pride & prejudice" entered at the prompt.
C15_Witness ==
    /\ cliLast.before = "archivist"
    /\ cliLast.line = Words(<<"who", "is", "ahab">>)
    /\ cliLast.res.prompted /\ cliLast.res.called
    /\ cliLast.answer.text # strip(cliLast.answer.text)
    /\ cliLast.res.payload.book = PrideAndPrejudice

\* C16: the catalog service answers every request with exactly one message
\* and never with an error: "__LIST__" with the JSON array of the resolved
\* keys in ascending order, "__META__:<key>" with the metadata object of the
\* text after the first colon ("{}" when it has no entry), and any other
\* text, the empty one included, with "{}".
C16_CatalogRepliesOnce ==
    catLast.op = "catalog"
    => /\ ~catLast.fault
       /\ catLast.out =
            IF catLast.prompt = ListPrompt
            THEN <<JsonArray(Ascending(StoreKeys))>>
            ELSE IF StartsWith(catLast.prompt, MetaPrefix)
            THEN <<JsonObject(ResolvedEntry(AfterFirst(catLast.prompt, Lit(":"))))>>
            ELSE <<JsonObject(EmptyMeta)>>

\* C17: nothing is cached across queries.  Whatever changes of the sources
\* and whatever queries went before, a reply of the catalog service is the
\* resolution of the sources as they are at that query (an error exactly
\* when the metadata they resolve to is no mapping), with one metadata
\* snapshot per query; and the router's local tools return the directory's
\* keys and the local document's entry as they are at the call.
C17_EveryQueryResolvesAfresh ==
    /\ catLast.op = "catalog"
        => /\ catLast.fault <=> /\ ~ResolvedIsMapping
                                /\ \/ catLast.prompt = ListPrompt
                                   \/ StartsWith(catLast.prompt, MetaPrefix)
           /\ (~catLast.fault /\ catLast.prompt = ListPrompt)
                => catLast.out = <<JsonArray(Ascending(StoreKeys))>>
           /\ (~catLast.fault /\ StartsWith(catLast.prompt, MetaPrefix))
                => catLast.out =
                     <<JsonObject(ResolvedEntry(AfterFirst(catLast.prompt, Lit(":"))))>>
    /\ (catLast.op = "list_available_books" /\ ~useMcp)
        => /\ ~catLast.fault
           /\ catLast.val.ty = "list"
           /\ Range(catLast.val.items) = FileKeys
           /\ Len(catLast.val.items) = Cardinality(FileKeys)
    /\ (catLast.op = "get_book_metadata" /\ ~useMcp)
        => /\ catLast.fault <=> localDoc.st = "non_mapping"
           /\ ~catLast.fault => catLast.val = PyDict(LocalEntry(catLast.prompt))

\* The catalog service lists the remote keys while the local document and
\* the directory hold other keys.
C17_Witness ==
    /\ IsListReply /\ ~catLast.fault
    /\ remoteSrc.st = "mapping" /\ remoteSrc.keys # {}
    /\ localDoc.st = "mapping" /\ localDoc.keys \notin {{}, remoteSrc.keys}
    /\ FileKeys \notin {{}, remoteSrc.keys}
    /\ Range(catLast.out[1].items) = remoteSrc.keys

\* C18: no call hangs and an unanswered call is a recoverable failure: at
\* every site a request that is waiting for its peer is eventually over with
\* the peer's reply, with the fallback to the next tier, or with the error
\* string.
C18_NoCallHangs ==
    \A s \in Sites :
        (wait.site[s].pc = "waiting")
        ~> (wait.site[s].pc = "done"
              /\ wait.site[s].outcome \in {"reply", "fallback", "error_string"})

\* The steps of the archivist in their order.
ArchivistSteps == <<"parse", "locate", "materialize", "delegate">>

\* C19: the archivist goes through Parse, Locate, Materialize, Delegate in
\* that order; it builds a pipeline only when Parse and Locate succeeded, runs
\* the crew only on a pipeline that holds the located file, builds the
\* pipeline for the request at hand (holding that request's file and no
\* other), and a request that does not fault gets exactly one message: the
\* error text of Parse or of Locate, or the crew's answer.
C19_ArchivistStepsInOrder ==
    (archLast.caller # "none" /\ ~archLast.run.raised)
    => /\ \E n \in 1..4 : archLast.steps = SubSeq(ArchivistSteps, 1, n)
       /\ Len(archLast.steps) >= 3
            => ~Malformed(archLast.req) /\ isfile(filename(archLast.req.bt))
       /\ archLast.rag # <<>>
            => Len(archLast.steps) = 4 /\ archLast.rag = <<filename(archLast.req.bt)>>
       /\ archLast.crew \in {0, 1}
       /\ archLast.crew = 1 <=> archLast.rag # <<>>
       /\ ~archLast.run.error
            => /\ Len(archLast.run.output) = 1
               /\ archLast.run.output[1].tag =
                    CASE Len(archLast.steps) = 1 -> "invalid_input_format"
                      [] Len(archLast.steps) = 2 -> "requested_book_not_found"
                      [] OTHER -> "task_output"
               /\ Len(archLast.steps) # 3

\* A request for one of two books in the directory was answered by the crew.
C19_Witness ==
    /\ archLast.caller # "none"
    /\ ~archLast.run.raised /\ ~archLast.run.error
    /\ archLast.steps = ArchivistSteps
    /\ archLast.crew = 1
    /\ Cardinality(FileKeys) >= 2

\* C20: when the archivist reaches Materialize, the requested book_title is
\* one of the keys a scan of the content directory lists at that moment, and
\* whatever the pipeline indexes is a file <key>.txt directly in the content
\* directory; no book_title leads to a file outside it.
C20_PipelineStaysInContentDirectory ==
    (archLast.caller # "none" /\ ~archLast.run.raised /\ Len(archLast.steps) >= 3)
    => /\ archLast.req.bt.ty \in {"str", "num"}
       /\ TitleName(archLast.req.bt) \in FileKeys
       /\ \A i \in DOMAIN archLast.rag :
             archLast.rag[i].dir = "data" /\ archLast.rag[i].base \in FileKeys

\* The calls the critic issues: to the archivist from its archivist tool, to
\* the catalog service from its two catalog tools.
RouterCalls ==
    {[svc |-> "archivist", agent |-> "archivist_agent"],
     [svc |-> "catalog", agent |-> "book_catalog_agent"]}

\* C21: every call names an agent registered at the endpoint it goes to: the
\* calls of the critic do, and so does every call the interactive client
\* issues, whichever configured agent is active, so that with the endpoint up
\* the request is served.
C21_CallsNameRegisteredAgents ==
    /\ \A c \in RouterCalls : c.agent = Registered(c.svc)
    /\ (cliLast # NoLine /\ cliLast.res.called)
        => /\ cliLast.res.agent = Registered(cliLast.res.svc)
           /\ svcState[cliLast.res.svc] = "up" => ~cliLast.res.run.raised

====
